---- MODULE Spec2Model ----
(***************************************************************************)
(* RealtimeTTS/engines/piper_engine.py: the voice descriptor (PiperVoice)  *)
(* and the engine adapter (PiperEngine) that runs the external piper       *)
(* executable and hands the produced audio to a FIFO queue.                *)
(***************************************************************************)
EXTENDS Integers, Sequences, FiniteSets, TLC

VARIABLES
    files,            \* the config files on disk: path -> content
    built,            \* the last PiperVoice(...) construction, or NotBuilt
    piper_path,       \* PiperEngine.piper_path
    voice,            \* PiperEngine.voice
    length_scale,     \* PiperEngine.length_scale, in tenths (10 is 1.0)
    queue,            \* PiperEngine.queue, head first
    consumed,         \* what the consumer has taken from the queue, oldest first
    pc,               \* position of the thread inside synthesize
    text_ok,          \* synthesize's argument: TRUE when text is a str
    output_wav_path,  \* synthesize's local output_wav_path
    tmpfile,          \* the temporary file on disk
    cmd_list,         \* synthesize's local cmd_list
    cfg_on_disk,      \* the voice's config file was on disk when line 77 ran
    ran,              \* what subprocess.run did in this call
    audio_data,       \* synthesize's local audio_data
    result,           \* how the last synthesize call ended
    remove_failed,    \* os.remove raised in this call
    hist0,            \* consumed \o queue when the call started
    voice0,           \* self.voice as the model_file check of line 62 read it
    calls,            \* number of synthesize calls started
    ok_log,           \* audio of the calls that returned True, in order of return
    info              \* what get_stream_info returned, when it was the last call

vars == <<files, built, piper_path, voice, length_scale, queue, consumed, pc,
          text_ok, output_wav_path, tmpfile, cmd_list, cfg_on_disk, ran,
          audio_data, result, remove_failed, hist0, voice0, calls, ok_log,
          info>>

---------------------------------------------------------------------------
(* Bounds of the model. *)

\* synthesize calls in one behaviour
MaxCalls == 2
\* frames in the data chunk of a WAV file, and in its header's frame count
MaxFrames == 2

---------------------------------------------------------------------------
(* Python values. *)

None == "<None>"

\* bool(x) for x a str or None
Truthy(x) == x # None /\ x # ""

\* native_sample_rate's default, line 20
DefaultRate == 24000

\* the rate get_stream_info reports, line 59
StreamRate == 24000

---------------------------------------------------------------------------
(* The config files a PiperVoice reads. *)

Absent == [t |-> "absent"]

\* a JSON value found under a "sample_rate" key: an integer, a string of
\* decimal digits, a float given in tenths (220505 is 22050.5), null
RateValues ==
    {Absent, [t |-> "null"]}
    \cup {[t |-> k, v |-> n] : k \in {"int", "str"}, n \in {16000, 22050}}
    \cup {[t |-> "float", tenths |-> 220505]}

\* a JSON value found under the "audio" key
AudioValues ==
    {Absent, [t |-> "null"], [t |-> "str"]}
    \cup {[t |-> "object", sample_rate |-> r] : r \in RateValues}

JsonObjects ==
    {[kind |-> "json", audio |-> a, sample_rate |-> r] :
        a \in AudioValues, r \in RateValues}

Missing == [kind |-> "missing"]

\* every content a config path can have
ConfigContents ==
    {Missing, [kind |-> "dir"], [kind |-> "invalid"], [kind |-> "scalar"]}
    \cup JsonObjects

\* the usual piper sidecar: {"audio": {"sample_rate": 22050}}
PiperJson ==
    [kind |-> "json",
     audio |-> [t |-> "object", sample_rate |-> [t |-> "int", v |-> 22050]],
     sample_rate |-> Absent]

ModelFiles == {"", "m1", "m2"}

Sidecar(model_file) == model_file \o ".json"

\* the config paths the model keeps on disk; any other path does not exist
ConfigPaths == {Sidecar("m1"), "c1"}

\* config_file arguments of PiperVoice
ConfigArgs == {None, "", "c1"}

\* the contents config files take while an engine runs
EngineContents == {Missing, PiperJson}

\* config_file arguments of the voices handed to an engine
EngineConfigArgs == {None, "c1"}

\* os.path.exists
Exists(fs, p) == p \in DOMAIN fs /\ fs[p].kind # "missing"

\* os.path.isfile
IsFile(fs, p) == Exists(fs, p) /\ fs[p].kind # "dir"

\* int(x) of a JSON value: exc when int() raises
IntOf(x) ==
    IF x.t \in {"int", "str"} THEN [exc |-> FALSE, v |-> x.v]
    ELSE IF x.t = "float" THEN [exc |-> FALSE, v |-> x.tenths \div 10]
    ELSE [exc |-> TRUE, v |-> 0]

\* lines 25-28 with the two lookups in the other order
ReadRateAudioLast(config_data) ==
    IF config_data.sample_rate.t # "absent"
    THEN IntOf(config_data.sample_rate)
    ELSE IF config_data.audio.t = "object"
            /\ config_data.audio.sample_rate.t # "absent"
    THEN IntOf(config_data.audio.sample_rate)
    ELSE [exc |-> FALSE, v |-> DefaultRate]

\* lines 25-28 on a parsed JSON object; 'sample_rate' in None raises
ReadRate(config_data) ==
    IF config_data.audio.t = "null"
    THEN [exc |-> TRUE, v |-> 0]
    ELSE IF config_data.audio.t = "object"
            /\ config_data.audio.sample_rate.t # "absent"
    THEN IntOf(config_data.audio.sample_rate)
    ELSE IF config_data.sample_rate.t # "absent"
    THEN IntOf(config_data.sample_rate)
    ELSE [exc |-> FALSE, v |-> DefaultRate]

\* lines 23-28, the body of the try: open, json.load, the lookups
LoadConfig(content) ==
    IF content.kind # "json"
    THEN [exc |-> TRUE, v |-> 0]
    ELSE ReadRate(content)

\* lines 22-30: the try with its except Exception: pass
TryLoadConfig(content) ==
    LET r == LoadConfig(content)
    IN  IF r.exc THEN [exc |-> FALSE, v |-> DefaultRate] ELSE r

\* lines 14-18
ResolveConfig(model_file, config_file, fs) ==
    IF config_file = None
    THEN IF IsFile(fs, Sidecar(model_file)) THEN Sidecar(model_file) ELSE None
    ELSE config_file

\* PiperVoice.__init__: exc when the constructor raises
PiperVoice(model_file, config_file, fs) ==
    LET cfg == ResolveConfig(model_file, config_file, fs)
        r   == IF Truthy(cfg) /\ Exists(fs, cfg)
               THEN TryLoadConfig(fs[cfg])
               ELSE [exc |-> FALSE, v |-> DefaultRate]
    IN  [exc   |-> r.exc,
         voice |-> [kind |-> "PiperVoice",
                    model_file |-> model_file,
                    config_file |-> cfg,
                    native_sample_rate |-> r.v]]

---------------------------------------------------------------------------
(* PiperEngine. *)

NoVoice == [kind |-> "None"]

\* an object that is no PiperVoice (a voice name, say): truthy, without
\* model_file, config_file or native_sample_rate
OtherObject == [kind |-> "object"]

IsPiperVoice(v) == v.kind = "PiperVoice"

\* the descriptors a caller can construct, with the disk as it is
DescriptorArgs(fs) ==
    {PiperVoice(m, c, fs).voice : m \in ModelFiles, c \in EngineConfigArgs}

\* what a caller can pass as voice
VoiceArgs(fs) == {NoVoice, OtherObject} \cup DescriptorArgs(fs)

\* lines 43-48
ResolvePiperPath(arg, env_path, os_name) ==
    IF arg = None
    THEN IF Truthy(env_path) THEN env_path
         ELSE IF os_name = "nt" THEN "piper.exe" ELSE "piper"
    ELSE arg

PiperPathArgs == {None, "/opt/piper"}
EnvPaths == {"/env/piper"}
OsNames == {"posix"}

\* length_scale in tenths: 0.8, 1.0
LengthScales == {8, 10}

\* str(length_scale)
Str(ls) == ToString(ls \div 10) \o "." \o ToString(ls % 10)

\* the temporary file
NoFile == [kind |-> "none"]
EmptyFile == [kind |-> "empty"]

\* a WAV file: the frame count its header gives, and the frames its data
\* chunk holds (frame i of a file carries the sample value i)
WavFiles ==
    {[kind |-> "wav", nframes |-> n, frames |-> [i \in 1..k |-> i]] :
        n \in 0..MaxFrames, k \in 0..MaxFrames}

\* what the executable can leave at the output path
Written == {NoFile, EmptyFile, [kind |-> "malformed"]} \cup WavFiles

NotRun == [exit |-> "notrun"]
NoInfo == <<>>

Min(a, b) == IF a < b THEN a ELSE b

\* Wave_read.readframes(n)
ReadFrames(wf, n) == SubSeq(wf.frames, 1, Min(n, Len(wf.frames)))

\* get_stream_info returning the rate it computed
StreamInfoNative(v) ==
    LET rate == IF v.kind # "None" /\ IsPiperVoice(v)
                THEN v.native_sample_rate ELSE 24000
    IN  <<"paInt16", 1, rate>>

\* get_stream_info, lines 55-59: rate is computed and not used
StreamInfo(v) ==
    LET rate == IF v.kind # "None" /\ IsPiperVoice(v)
                THEN v.native_sample_rate ELSE 24000
    IN  <<"paInt16", 1, StreamRate>>

callVars == <<pc, text_ok, output_wav_path, tmpfile, cmd_list, cfg_on_disk,
              ran, audio_data, result, remove_failed, hist0, voice0, calls,
              ok_log>>

\* no PiperVoice(...) construction recorded
NotBuilt == [made |-> FALSE]

\* the state of a thread that is in no synthesize call, and an empty queue
Quiet ==
    /\ queue = <<>>
    /\ consumed = <<>>
    /\ pc = "idle"
    /\ text_ok = TRUE
    /\ output_wav_path = ""
    /\ tmpfile = NoFile
    /\ cmd_list = <<>>
    /\ cfg_on_disk = FALSE
    /\ ran = NotRun
    /\ audio_data = <<>>
    /\ result = "none"
    /\ remove_failed = FALSE
    /\ hist0 = <<>>
    /\ voice0 = NoVoice
    /\ calls = 0
    /\ ok_log = <<>>
    /\ info = NoInfo

\* PiperEngine.__init__, lines 39-52
EngineInit ==
    /\ files \in [ConfigPaths -> EngineContents]
    /\ built = NotBuilt
    /\ \E a \in PiperPathArgs, e \in EnvPaths, o \in OsNames :
          piper_path = ResolvePiperPath(a, e, o)
    /\ voice \in VoiceArgs(files)
    /\ length_scale \in LengthScales
    /\ Quiet

---------------------------------------------------------------------------
(* synthesize, lines 61-114, one action per read of self.voice and per     *)
(* call into the environment.                                              *)

\* a return before the try (lines 62-64), or an exception leaving the call
Leave(r) ==
    /\ pc' = "done"
    /\ result' = r

\* an exception inside the try: every handler of lines 97-108 returns False,
\* and the finally block runs
Caught ==
    /\ pc' = "L110"
    /\ result' = "False"

\* line 61 and the first operand of line 62: not self.voice
Synthesize(t) ==
    /\ pc = "idle"
    /\ calls < MaxCalls
    /\ calls' = calls + 1
    /\ text_ok' = t
    /\ hist0' = consumed \o queue
    /\ info' = NoInfo
    /\ IF voice.kind = "None"
       THEN Leave("False")
       ELSE pc' = "L62b" /\ result' = "none"
    /\ UNCHANGED <<files, built, piper_path, voice, length_scale, queue,
                   consumed, output_wav_path, tmpfile, cmd_list, cfg_on_disk,
                   ran, remove_failed, voice0, ok_log, audio_data>>

\* line 62 without its second operand
CheckVoiceOnly ==
    pc' = "L68" /\ result' = "none"

\* the second operand of line 62: not self.voice.model_file, which raises
\* AttributeError, outside the try, on an object without model_file
CheckModelFile ==
    IF ~IsPiperVoice(voice)
    THEN Leave("raised")
    ELSE IF ~Truthy(voice.model_file)
    THEN Leave("False")
    ELSE pc' = "L68" /\ result' = "none"

Precondition ==
    /\ pc = "L62b"
    /\ CheckModelFile
    /\ voice0' = voice
    /\ UNCHANGED <<files, built, piper_path, voice, length_scale, queue,
                   consumed, text_ok, output_wav_path, tmpfile, cmd_list,
                   cfg_on_disk, ran, remove_failed, hist0, calls, ok_log,
                   audio_data, info>>

\* lines 68-69: tempfile.NamedTemporaryFile creates the file, or raises
MakeTemp ==
    /\ pc = "L68"
    /\ \E ok \in BOOLEAN :
          IF ok
          THEN /\ output_wav_path' = "tmp.wav"
               /\ tmpfile' = EmptyFile
               /\ pc' = "L73"
               /\ result' = "none"
          ELSE /\ Caught
               /\ UNCHANGED <<output_wav_path, tmpfile>>
    /\ UNCHANGED <<files, built, piper_path, voice, length_scale, queue,
                   consumed, text_ok, cmd_list, cfg_on_disk, ran, remove_failed,
                   hist0, voice0, calls, ok_log, audio_data, info>>

\* lines 71-75
BaseCmd(exe, v, out) == <<exe, "-m", v.model_file, "-f", out>>

BuildCmd ==
    /\ pc = "L73"
    /\ IF IsPiperVoice(voice)
       THEN /\ cmd_list' = BaseCmd(piper_path, voice, output_wav_path)
            /\ pc' = "L77a"
            /\ result' = "none"
       ELSE Caught /\ UNCHANGED cmd_list
    /\ UNCHANGED <<files, built, piper_path, voice, length_scale, queue,
                   consumed, text_ok, output_wav_path, tmpfile, cfg_on_disk, ran,
                   remove_failed, hist0, voice0, calls, ok_log, audio_data, info>>

\* line 77, first operand: self.voice.config_file
ConfigSet ==
    /\ pc = "L77a"
    /\ IF IsPiperVoice(voice)
       THEN /\ pc' = IF Truthy(voice.config_file) THEN "L77b" ELSE "L80"
            /\ result' = "none"
       ELSE Caught
    /\ UNCHANGED <<files, built, piper_path, voice, length_scale, queue,
                   consumed, text_ok, output_wav_path, tmpfile, cmd_list,
                   cfg_on_disk, ran, remove_failed, hist0, voice0, calls, ok_log, audio_data, info>>

\* line 77, second operand: os.path.exists(self.voice.config_file);
\* os.path.exists(None) raises TypeError
ConfigOnDisk(fs, v) == Exists(fs, v.config_file)

ConfigExists ==
    /\ pc = "L77b"
    /\ IF IsPiperVoice(voice) /\ voice.config_file # None
       THEN /\ cfg_on_disk' = Exists(files, voice.config_file)
            /\ pc' = IF ConfigOnDisk(files, voice) THEN "L78" ELSE "L80"
            /\ result' = "none"
       ELSE Caught /\ UNCHANGED cfg_on_disk
    /\ UNCHANGED <<files, built, piper_path, voice, length_scale, queue,
                   consumed, text_ok, output_wav_path, tmpfile, cmd_list, ran,
                   remove_failed, hist0, voice0, calls, ok_log, audio_data, info>>

\* line 78
AddConfig ==
    /\ pc = "L78"
    /\ IF IsPiperVoice(voice)
       THEN /\ cmd_list' = cmd_list \o <<"-c", voice.config_file>>
            /\ pc' = "L80"
            /\ result' = "none"
       ELSE Caught /\ UNCHANGED cmd_list
    /\ UNCHANGED <<files, built, piper_path, voice, length_scale, queue,
                   consumed, text_ok, output_wav_path, tmpfile, cfg_on_disk, ran,
                   remove_failed, hist0, voice0, calls, ok_log, audio_data, info>>

\* lines 80-81 without the test
LengthArgsAlways(ls) == <<"--length_scale", Str(ls)>>

\* lines 80-81
LengthArgs(ls) == IF ls # 10 THEN <<"--length_scale", Str(ls)>> ELSE <<>>

AddLengthScale ==
    /\ pc = "L80"
    /\ cmd_list' = cmd_list \o LengthArgs(length_scale)
    /\ pc' = "L83"
    /\ UNCHANGED <<files, built, piper_path, voice, length_scale, queue,
                   consumed, text_ok, output_wav_path, tmpfile, cfg_on_disk, ran,
                   result, remove_failed, hist0, voice0, calls, ok_log, audio_data, info>>

\* lines 83-90: text.encode raises on a text that is no str; subprocess.run
\* raises TypeError on an argument that is None, FileNotFoundError when the
\* executable is missing, another OSError, CalledProcessError on a non-zero
\* exit; the executable leaves what it likes at the output path
Exits == {"notfound", "oserror", "nonzero", "zero"}

RunPiper ==
    /\ pc = "L83"
    /\ IF ~text_ok \/ \E i \in DOMAIN cmd_list : cmd_list[i] = None
       THEN Caught /\ UNCHANGED <<ran, tmpfile>>
       ELSE \E e \in Exits, w \in Written :
               /\ e \in {"notfound", "oserror"} => w = tmpfile
               /\ ran' = [exit |-> e, wrote |-> w]
               /\ tmpfile' = w
               /\ IF e = "zero"
                  THEN pc' = "L92" /\ result' = "none"
                  ELSE Caught
    /\ UNCHANGED <<files, built, piper_path, voice, length_scale, queue,
                   consumed, text_ok, output_wav_path, cmd_list, cfg_on_disk,
                   remove_failed, hist0, voice0, calls, ok_log, audio_data, info>>

\* line 93 reading one frame too few
AudioDataShort(wf) == ReadFrames(wf, wf.nframes - 1)

\* line 93
AudioData(wf) == ReadFrames(wf, wf.nframes)

\* a put at the head
PutFirst(q, b) == <<b>> \o q

\* line 94: Queue.put appends at the tail
Put(q, b) == Append(q, b)

\* lines 92-94 putting whatever was read, also when wave.open failed
QueueAfterReadAlways(q, f) ==
    Put(q, IF f.kind = "wav" THEN AudioData(f) ELSE <<>>)

\* the queue after lines 92-94 on the file f: wave.open raises on a
\* missing, empty or malformed file, before anything is put
QueueAfterRead(q, f) ==
    IF f.kind = "wav" THEN Put(q, AudioData(f)) ELSE q

\* lines 92-95
ReadWav ==
    /\ pc = "L92"
    /\ queue' = QueueAfterRead(queue, tmpfile)
    /\ IF tmpfile.kind = "wav"
       THEN /\ audio_data' = AudioData(tmpfile)
            /\ pc' = "L110"
            /\ result' = "True"
       ELSE Caught /\ UNCHANGED audio_data
    /\ UNCHANGED <<files, built, piper_path, voice, length_scale, consumed,
                   text_ok, output_wav_path, tmpfile, cmd_list, cfg_on_disk, ran,
                   remove_failed, hist0, voice0, calls, ok_log, info>>

\* a removal on the success path only
MustRemoveOnSuccess(path, f, r) == r = "True" /\ path # "" /\ f.kind # "none"

\* line 110
MustRemove(path, f, r) == path # "" /\ f.kind # "none"

\* lines 109-114: the finally block; os.remove may raise, which is swallowed
Cleanup ==
    /\ pc = "L110"
    /\ pc' = "done"
    /\ IF MustRemove(output_wav_path, tmpfile, result)
       THEN \E ok \in BOOLEAN :
               /\ tmpfile' = IF ok THEN NoFile ELSE tmpfile
               /\ remove_failed' = ~ok
       ELSE UNCHANGED <<tmpfile, remove_failed>>
    /\ ok_log' = IF result = "True" THEN Append(ok_log, audio_data) ELSE ok_log
    /\ UNCHANGED <<files, built, piper_path, voice, length_scale, queue,
                   consumed, text_ok, output_wav_path, cmd_list, cfg_on_disk, ran,
                   result, hist0, voice0, calls, audio_data, info>>

\* the caller has its answer; the call's locals are gone (a temporary file
\* that could not be removed stays on disk under its own unique name)
Return ==
    /\ pc = "done"
    /\ pc' = "idle"
    /\ text_ok' = TRUE
    /\ output_wav_path' = ""
    /\ tmpfile' = NoFile
    /\ cmd_list' = <<>>
    /\ cfg_on_disk' = FALSE
    /\ ran' = NotRun
    /\ audio_data' = <<>>
    /\ result' = "none"
    /\ remove_failed' = FALSE
    /\ hist0' = <<>>
    /\ voice0' = NoVoice
    /\ UNCHANGED <<files, built, piper_path, voice, length_scale, queue,
                   consumed, calls, ok_log, info>>

---------------------------------------------------------------------------
(* The other operations and the environment. *)

\* set_voice, lines 116-117, between two synthesize calls
SetVoice ==
    /\ pc = "idle"
    /\ \E v \in VoiceArgs(files) : voice' = v
    /\ info' = NoInfo
    /\ UNCHANGED <<files, built, piper_path, length_scale, queue, consumed,
                   callVars>>

\* set_voice on another thread, at any point of a synthesize call, with a
\* PiperVoice as annotated
SetVoiceAnyTime ==
    /\ \E v \in DescriptorArgs(files) : voice' = v
    /\ info' = NoInfo
    /\ UNCHANGED <<files, built, piper_path, length_scale, queue, consumed,
                   callVars>>

\* get_stream_info, lines 55-59
GetStreamInfo ==
    /\ pc = "idle"
    /\ info' = StreamInfo(voice)
    /\ UNCHANGED <<files, built, piper_path, voice, length_scale, queue,
                   consumed, callVars>>

\* the consumer's Queue.get on the queue of line 52
Get ==
    /\ queue # <<>>
    /\ consumed' = Append(consumed, Head(queue))
    /\ queue' = Tail(queue)
    /\ UNCHANGED <<files, built, piper_path, voice, length_scale, callVars,
                   info>>

\* a config file appears or disappears
FsChange ==
    /\ \E p \in ConfigPaths, c \in EngineContents :
          /\ files[p] # c
          /\ files' = [files EXCEPT ![p] = c]
    /\ UNCHANGED <<built, piper_path, voice, length_scale, queue, consumed,
                   callVars, info>>

SynthesizeSteps ==
    \/ \E t \in BOOLEAN : Synthesize(t)
    \/ Precondition
    \/ MakeTemp
    \/ BuildCmd
    \/ ConfigSet
    \/ ConfigExists
    \/ AddConfig
    \/ AddLengthScale
    \/ RunPiper
    \/ ReadWav
    \/ Cleanup
    \/ Return

Next ==
    \/ SynthesizeSteps
    \/ SetVoice
    \/ GetStreamInfo
    \/ Get
    \/ FsChange

Spec == EngineInit /\ [][Next]_vars

NextConc ==
    \/ SynthesizeSteps
    \/ SetVoiceAnyTime
    \/ Get
    \/ FsChange

\* an engine on which all synthesize calls but one have been made and have
\* failed: the queue is still empty
ConcInit ==
    /\ files \in [ConfigPaths -> EngineContents]
    /\ built = NotBuilt
    /\ piper_path = ResolvePiperPath(None, None, "posix")
    /\ voice \in VoiceArgs(files)
    /\ length_scale \in LengthScales
    /\ queue = <<>>
    /\ consumed = <<>>
    /\ pc = "idle"
    /\ text_ok = TRUE
    /\ output_wav_path = ""
    /\ tmpfile = NoFile
    /\ cmd_list = <<>>
    /\ cfg_on_disk = FALSE
    /\ ran = NotRun
    /\ audio_data = <<>>
    /\ result = "none"
    /\ remove_failed = FALSE
    /\ hist0 = <<>>
    /\ voice0 = NoVoice
    /\ calls = MaxCalls - 1
    /\ ok_log = <<>>
    /\ info = NoInfo

SpecConc == ConcInit /\ [][NextConc]_vars

---------------------------------------------------------------------------
(* Constructing voice descriptors, on every kind of config file. *)

\* one config path holds any content, the others a usual one
VoiceInit ==
    /\ \E p \in ConfigPaths, c \in ConfigContents,
          f \in [ConfigPaths -> EngineContents] :
          files = [f EXCEPT ![p] = c]
    /\ built = NotBuilt
    /\ piper_path = ResolvePiperPath(None, None, "posix")
    /\ voice = NoVoice
    /\ length_scale = 10
    /\ Quiet

\* PiperVoice(model_file, config_file), lines 12-30
Construct ==
    /\ \E m \in ModelFiles, c \in ConfigArgs :
          LET r == PiperVoice(m, c, files)
          IN  built' = [made |-> TRUE, model_file |-> m, config_file |-> c,
                        exc |-> r.exc, voice |-> r.voice]
    /\ UNCHANGED <<files, piper_path, voice, length_scale, queue, consumed,
                   callVars, info>>

NextVoice == Construct

SpecVoice == VoiceInit /\ [][NextVoice]_vars

---------------------------------------------------------------------------
(* The claims. *)

\* every buffer the queue has held, oldest first
History == consumed \o queue

\* C1: no exception escapes synthesize, whatever voice the constructor or
\* set_voice stored and whatever the executable does: the call ends by
\* returning a boolean.
C1_NoExceptionEscapes == result # "raised"

\* C2: a synthesize call that returns False has enqueued nothing: the buffers
\* the queue has held are those it had held when the call started.
C2_FailedCallEnqueuesNothing ==
    (pc \in {"L110", "done"} /\ result = "False") => History = hist0

C2_Witness ==
    /\ pc = "done"
    /\ result = "False"
    /\ ran # NotRun
    /\ ran.exit = "nonzero"
    /\ ran.wrote.kind = "wav"
    /\ queue # <<>>

\* C3: with a voice whose model path is not empty, when the executable exits
\* 0 and has written a well-formed WAV file, synthesize returns True and
\* exactly one buffer, all the frames of the file, has been appended at the
\* tail of the queue.
C3_SuccessEnqueuesFrames ==
    (/\ pc = "done"
     /\ IsPiperVoice(voice)
     /\ Truthy(voice.model_file)
     /\ ran # NotRun
     /\ ran.exit = "zero"
     /\ ran.wrote.kind = "wav"
     /\ ran.wrote.nframes = Len(ran.wrote.frames))
    => /\ result = "True"
       /\ History = Append(hist0, ran.wrote.frames)

C3_Witness ==
    /\ pc = "done"
    /\ result = "True"
    /\ ran.wrote.kind = "wav"
    /\ ran.wrote.nframes = 2
    /\ ran.wrote.frames = <<1, 2>>
    /\ hist0 # <<>>
    /\ History = Append(hist0, <<1, 2>>)

\* C4: called with no voice set, or with a voice whose model path is empty,
\* synthesize returns False, leaves the queue as it was, allocates no
\* temporary file and does not run the executable.
C4_NoVoiceNoWork ==
    (/\ pc = "done"
     /\ \/ voice.kind = "None"
        \/ IsPiperVoice(voice) /\ ~Truthy(voice.model_file))
    => /\ result = "False"
       /\ History = hist0
       /\ output_wav_path = ""
       /\ tmpfile = NoFile
       /\ ran = NotRun

C4_Witness ==
    /\ pc = "done"
    /\ IsPiperVoice(voice)
    /\ voice.model_file = ""
    /\ result = "False"
    /\ queue # <<>>

\* C5: a call that allocated a temporary file has removed it when it returns,
\* unless the removal itself failed; a failed removal is swallowed, and the
\* call returns True exactly when the executable exited 0 and its output was
\* read as a WAV file.
C5_TempFileRemoved ==
    (pc = "done" /\ output_wav_path # "")
    => /\ remove_failed \/ tmpfile = NoFile
       /\ result \in {"True", "False"}
       /\ result = "True"
            <=> (ran # NotRun /\ ran.exit = "zero" /\ ran.wrote.kind = "wav")

C5_Witness ==
    /\ pc = "done"
    /\ output_wav_path # ""
    /\ result = "False"
    /\ ran # NotRun
    /\ ran.exit = "nonzero"
    /\ ran.wrote.kind = "malformed"
    /\ ~remove_failed
    /\ tmpfile = NoFile

\* the content of the config file a descriptor resolved
C6_Content ==
    LET cfg == built.voice.config_file
    IN  IF Truthy(cfg) /\ cfg \in DOMAIN files THEN files[cfg] ELSE Missing

\* the integer value of a JSON value, 0 when it has none
C6_Int(x) ==
    IF x.t \in {"int", "str"} THEN x.v
    ELSE IF x.t = "float" THEN (x.tenths - (x.tenths % 10)) \div 10
    ELSE 0

C6_HasInt(x) == x.t \in {"int", "str", "float"}

\* the rate the claim gives for a config file
C6_Rate(content) ==
    IF content.kind # "json" \/ content.audio.t = "null"
    THEN 24000
    ELSE IF content.audio.t = "object" /\ content.audio.sample_rate # Absent
    THEN IF C6_HasInt(content.audio.sample_rate)
         THEN C6_Int(content.audio.sample_rate) ELSE 24000
    ELSE IF content.sample_rate # Absent
    THEN IF C6_HasInt(content.sample_rate)
         THEN C6_Int(content.sample_rate) ELSE 24000
    ELSE 24000

\* C6: constructing a voice descriptor never fails, and its sample rate is
\* the integer value of audio.sample_rate of the resolved config file when
\* present, else that of the top-level sample_rate when present, else 24000;
\* a missing or unreadable file, invalid JSON, or a failure while reading the
\* fields (a value with no integer value, an "audio" entry that is null)
\* leaves 24000.
C6_SampleRate ==
    built.made
    => /\ ~built.exc
       /\ built.voice.native_sample_rate = C6_Rate(C6_Content)

C6_Witness ==
    /\ built.made
    /\ C6_Content.kind = "json"
    /\ C6_Content.audio.t = "object"
    /\ C6_Content.audio.sample_rate = [t |-> "int", v |-> 22050]
    /\ C6_Content.sample_rate = [t |-> "int", v |-> 16000]
    /\ built.voice.native_sample_rate = 22050

\* the argument list the claim gives
C7_Args ==
    <<piper_path, "-m", voice.model_file, "-f", output_wav_path>>
    \o (IF Truthy(voice.config_file) /\ cfg_on_disk
        THEN <<"-c", voice.config_file>> ELSE <<>>)
    \o (IF length_scale = 10
        THEN <<>> ELSE <<"--length_scale", Str(length_scale)>>)

\* C7: the argument list passed to the executable is the executable path, -m
\* and the voice's model path, -f and the temporary path, then -c and the
\* config path exactly when the voice has a config file that is on disk, then
\* --length_scale and the multiplier exactly when length_scale is not 1.0.
C7_ArgumentList ==
    (pc \in {"L92", "L110", "done"} /\ ran # NotRun) => cmd_list = C7_Args

C7_Witness ==
    /\ pc = "done"
    /\ ran # NotRun
    /\ length_scale = 8
    /\ cmd_list = <<piper_path, "-m", "m1", "-f", "tmp.wav", "-c", "c1",
                    "--length_scale", "0.8">>

\* C8: get_stream_info returns (paInt16, 1, 24000) in every engine state,
\* whatever the voice and its native sample rate, and changes no engine state.
C8_FixedStreamInfo ==
    [][GetStreamInfo
        => /\ info' = <<"paInt16", 1, 24000>>
           /\ UNCHANGED <<piper_path, voice, length_scale, queue>>]_vars

C8_Witness ==
    /\ info = <<"paInt16", 1, 24000>>
    /\ IsPiperVoice(voice)
    /\ voice.native_sample_rate = 22050

\* C9: the buffers pass through the queue in the order in which the
\* successful synthesize calls returned, one per successful call and none for
\* a failed one: what the consumer took followed by what the queue holds is
\* the audio of the successful calls in order (with, last, the buffer of a
\* call that has enqueued and is about to return True).
C9_Fifo ==
    History = ok_log \o (IF pc = "L110" /\ result = "True"
                         THEN <<audio_data>> ELSE <<>>)

C9_Witness ==
    /\ pc = "idle"
    /\ Len(ok_log) = 2
    /\ ok_log[1] # ok_log[2]
    /\ consumed = <<ok_log[1]>>
    /\ queue = <<ok_log[2]>>

\* C10: with set_voice running on another thread, a synthesize call uses one
\* voice throughout: the arguments it builds carry the model path and the
\* config path of the voice its precondition checked, and a call that passed
\* the precondition, got its temporary file and has a str text does not fail
\* before it runs the executable.
C10_OneVoicePerCall ==
    /\ pc = "L83"
        => /\ cmd_list[3] = voice0.model_file
           /\ Len(cmd_list) > 5 /\ cmd_list[6] = "-c"
                => cmd_list[7] = voice0.config_file
    /\ (pc = "L110" /\ output_wav_path # "" /\ text_ok) => ran # NotRun

====
